---- MODULE Spec2Model ----
(***************************************************************************)
(* Media-server settings of trailarr's frontend: MediaServerService (the   *)
(* cached snapshot, the targeted id, the derived selected server) and      *)
(* EditMediaServerComponent (the create / edit / test / submit / delete    *)
(* workflow with its two reactive effects).                                *)
(*                                                                         *)
(* One view instance is modelled from its construction to its teardown;    *)
(* HTTP responses, timers and navigation promises that outlive the view    *)
(* still run, as their subscriptions are never cancelled.  Effects are     *)
(* flushed before the next task runs (Quiescent), as Angular does at the   *)
(* end of every task.                                                      *)
(***************************************************************************)
EXTENDS Integers, Sequences, FiniteSets, TLC

VARIABLES
  backend,            \* the backend's collection (array of MediaServerRead)
  nextId,             \* the id the backend gives the next created entity
  resStatus,          \* mediaServersResource: "loading" | "reloading" | "resolved"
  resValue,           \* mediaServersResource.value(): the cached snapshot
  mediaServerID,      \* MediaServerService.mediaServerID (targeted id)
  toasts,             \* number of error notifications shown so far
  mediaServerId,      \* the view's input (navigation id, transformed)
  mediaServerCreate,  \* the form's live-edit state
  isCreate, isConnectionTested, isReadyToSubmit, isSubmitting,
  submitResult,       \* inline result message
  formDirty,          \* mediaServerForm().dirty()
  cancelDialog,       \* cancel dialog open
  alive,              \* the view exists (route is the edit route)
  idDirty,            \* mediaServerIDeffect is scheduled
  hydDirty,           \* mediaServerEffect is scheduled
  hydTracksServer,    \* mediaServerEffect read mediaServer() in its last run
  inFlight,           \* HTTP requests issued and not yet answered
  nextReq,            \* number of HTTP requests issued so far
  timers,             \* pending setTimeout callbacks, in the order they were set
  thens,              \* navigations whose promise has not yet resolved
  navs,               \* router.navigate calls, by origin
  reloads,            \* mediaServersResource.reload() calls, by origin
  succeeded,          \* successful responses received, by kind
  testedOk,           \* payloads whose connection test was success-marked
  edits,              \* number of user edits so far
  lastHydrated        \* the server mediaServerEffect copied last, <<>> before

vars == <<backend, nextId, resStatus, resValue, mediaServerID, toasts,
          mediaServerId, mediaServerCreate, isCreate, isConnectionTested,
          isReadyToSubmit, isSubmitting, submitResult, formDirty, cancelDialog, alive, idDirty, hydDirty, hydTracksServer, inFlight,
          nextReq, timers, thens, navs, reloads, succeeded, testedOk, edits,
          lastHydrated>>

viewVars == <<mediaServerCreate, isCreate, isConnectionTested, isReadyToSubmit,
              isSubmitting, submitResult, formDirty, cancelDialog,
              alive>>

-----------------------------------------------------------------------------
(* Bounds of the model *)

\* the number of user actions that edit the form or call the service
MaxUserActions == 4

-----------------------------------------------------------------------------
(* Program constants *)

SentinelId == -1
ApiKeyMinLength == 10
ApiKeyMaxLength == 200
NameMinLength == 3
UrlMinLength == 5

-----------------------------------------------------------------------------
(* Strings *)

UpperToLower ==
  [c \in {"A","B","C","D","E","F","G","H","I","J","K","L","M","N","O","P","Q","R",
          "S","T","U","V","W","X","Y","Z"} |->
     CASE c = "A" -> "a" [] c = "B" -> "b" [] c = "C" -> "c" [] c = "D" -> "d"
       [] c = "E" -> "e" [] c = "F" -> "f" [] c = "G" -> "g" [] c = "H" -> "h"
       [] c = "I" -> "i" [] c = "J" -> "j" [] c = "K" -> "k" [] c = "L" -> "l"
       [] c = "M" -> "m" [] c = "N" -> "n" [] c = "O" -> "o" [] c = "P" -> "p"
       [] c = "Q" -> "q" [] c = "R" -> "r" [] c = "S" -> "s" [] c = "T" -> "t"
       [] c = "U" -> "u" [] c = "V" -> "v" [] c = "W" -> "w" [] c = "X" -> "x"
       [] c = "Y" -> "y" [] c = "Z" -> "z"]

RECURSIVE toLowerCase(_)
toLowerCase(s) ==
  IF Len(s) = 0 THEN ""
  ELSE LET c == SubSeq(s, 1, 1)
       IN (IF c \in DOMAIN UpperToLower THEN UpperToLower[c] ELSE c)
            \o toLowerCase(SubSeq(s, 2, Len(s)))

includes(s, sub) ==
  \E i \in 1..(Len(s) - Len(sub) + 1) : SubSeq(s, i, i + Len(sub) - 1) = sub

startsWith(s, prefix) ==
  Len(s) >= Len(prefix) /\ SubSeq(s, 1, Len(prefix)) = prefix

DigitValue ==
  [c \in {"0","1","2","3","4","5","6","7","8","9"} |->
     CASE c = "0" -> 0 [] c = "1" -> 1 [] c = "2" -> 2 [] c = "3" -> 3
       [] c = "4" -> 4 [] c = "5" -> 5 [] c = "6" -> 6 [] c = "7" -> 7
       [] c = "8" -> 8 [] c = "9" -> 9]

RECURSIVE allDigits(_)
allDigits(s) ==
  Len(s) = 0 \/ (SubSeq(s, 1, 1) \in DOMAIN DigitValue /\ allDigits(SubSeq(s, 2, Len(s))))

RECURSIVE digitsValue(_)
digitsValue(s) ==
  IF Len(s) = 0 THEN 0
  ELSE 10 * digitsValue(SubSeq(s, 1, Len(s) - 1)) + DigitValue[SubSeq(s, Len(s), Len(s))]

\* Number(value) followed by isNaN(num) ? -1 : num, for a route parameter
\* that is a string of characters (Number("") is 0)
transformId(value) ==
  IF allDigits(value) THEN digitsValue(value)
  ELSE IF startsWith(value, "-") /\ Len(value) > 1 /\ allDigits(SubSeq(value, 2, Len(value)))
       THEN 0 - digitsValue(SubSeq(value, 2, Len(value)))
       ELSE -1

-----------------------------------------------------------------------------
(* Data model *)

\* the placeholder the service falls back to
newMediaServer ==
  [added_at |-> "now", api_key |-> "", enabled |-> TRUE, id |-> SentinelId,
   name |-> "", server_type |-> "emby", url |-> ""]

\* the initial value of the form's live-edit state
InitialForm ==
  [api_key |-> "", enabled |-> TRUE, name |-> "", server_type |-> "emby", url |-> ""]

\* the collection the backend holds when the view is constructed
InitialBackend ==
  << [added_at |-> "t1", api_key |-> "abcdefghijkl", enabled |-> TRUE, id |-> 1,
      name |-> "Plex", server_type |-> "plex", url |-> "https://plex:32400"],
     [added_at |-> "t2", api_key |-> "zyxwvutsrqpo", enabled |-> FALSE, id |-> 2,
      name |-> "Jelly", server_type |-> "jellyfin", url |-> "https://jelly.lan"] >>

\* what the user may type into the form: a valid entry, one with a short
\* api_key and one whose url is no http(s) url
FormInputs ==
  { [name |-> "Home Emby", url |-> "http://192.168.1.5:8096", api_key |-> "1234567890"],
    [name |-> "Home Emby", url |-> "http://192.168.1.5:8096", api_key |-> "123456789"],
    [name |-> "Home Emby", url |-> "ftp://192.168.1.5", api_key |-> "1234567890"] }

\* route parameters the view may be opened with
RouteParams == {"-1", "1", "7", "abc"}

\* what the test endpoint may answer, and the messages of failed requests
TestResults == {"Connection SUCCESSFUL", "Invalid API key"}
ErrorMessages == {"Http failure"}

\* the servers whose library a caller may ask to refresh
RefreshIds == {1}

InvalidMessage == "Form is invalid, please correct the errors and try again."
TestedSuffix == "\nConnection tested successfully. You can now submit."

-----------------------------------------------------------------------------
(* Form validation: the schema of mediaServerForm *)

required(v) == Len(v) > 0
minLength(v, n) == Len(v) = 0 \/ Len(v) >= n
maxLength(v, n) == Len(v) <= n
urlPattern(v) == Len(v) = 0 \/ startsWith(v, "http://") \/ startsWith(v, "https://")

\* faulty variant: the schema without the url pattern
FormValid_noPattern(f) ==
  /\ required(f.api_key)
  /\ minLength(f.api_key, ApiKeyMinLength)
  /\ maxLength(f.api_key, ApiKeyMaxLength)
  /\ required(f.name)
  /\ minLength(f.name, NameMinLength)
  /\ required(f.url)
  /\ minLength(f.url, UrlMinLength)

FormValid(f) ==
  /\ required(f.api_key)
  /\ minLength(f.api_key, ApiKeyMinLength)
  /\ maxLength(f.api_key, ApiKeyMaxLength)
  /\ required(f.name)
  /\ minLength(f.name, NameMinLength)
  /\ required(f.url)
  /\ minLength(f.url, UrlMinLength)
  /\ urlPattern(f.url)

-----------------------------------------------------------------------------
(* MediaServerService *)

\* Array.prototype.find: the index of the first element with the id, 0 when
\* there is none (find's "undefined")
RECURSIVE findFrom(_, _, _)
findFrom(value, id, i) ==
  IF i > Len(value) THEN 0
  ELSE IF value[i].id = id THEN i ELSE findFrom(value, id, i + 1)

find(value, id) == findFrom(value, id, 1)

\* faulty variant: the first entity of the snapshot, whatever its id
selectedMediaServerOf_first(value, id) ==
  IF value # <<>> THEN value[1] ELSE newMediaServer

selectedMediaServerOf(value, id) ==
  LET server == find(value, id)
  IN IF server # 0 THEN value[server] ELSE newMediaServer

selectedMediaServer == selectedMediaServerOf(resValue, mediaServerID)

\* Array.prototype.some
some(value, id) == \E i \in 1..Len(value) : value[i].id = id

\* faulty variant: the toast is shown for the sentinel id as well
mediaServerExists_toastSentinel(value, id) ==
  IF some(value, id) THEN [ret |-> TRUE, toast |-> 0]
  ELSE [ret |-> FALSE, toast |-> 1]

\* mediaServerExists: the value returned and the number of error toasts shown
mediaServerExists(value, id) ==
  IF some(value, id) THEN [ret |-> TRUE, toast |-> 0]
  ELSE IF id # SentinelId THEN [ret |-> FALSE, toast |-> 1]
       ELSE [ret |-> FALSE, toast |-> 0]

isLoading == resStatus \in {"loading", "reloading"}

\* mediaServersResource.reload(): ignored during the first load, otherwise
\* the resource starts (or restarts) reloading and keeps its value
reloadStatus(status) == IF status = "loading" THEN status ELSE "reloading"

-----------------------------------------------------------------------------
(* Requests, timers and counters *)

Request(kind, data, id) == [kind |-> kind, data |-> data, id |-> id, n |-> nextReq]

\* a request that carries no body
NoBody == [body |-> "none"]

requestsOf(kinds) == {r \in inFlight : r.kind \in kinds}

bump(counter, key) == [counter EXCEPT ![key] = @ + 1]

Quiescent == ~idDirty /\ ~hydDirty

noModal == ~cancelDialog

\* n more user actions that edit the form or call the service are within
\* the bound
withinBound(n) == nextReq + edits + toasts + n <= MaxUserActions

\* a task of the view's user: the view exists, effects are flushed and no
\* modal dialog covers the form
userTurn == alive /\ Quiescent /\ noModal

-----------------------------------------------------------------------------
(* Construction *)

Init ==
  /\ backend = InitialBackend
  /\ nextId = 3
  /\ \/ resStatus = "loading" /\ resValue = <<>>
     \/ resStatus = "resolved" /\ resValue = InitialBackend
  /\ mediaServerID \in {SentinelId, 2}
  /\ toasts = 0
  /\ mediaServerId \in {transformId(p) : p \in RouteParams}
  /\ mediaServerCreate = InitialForm
  /\ isCreate = FALSE
  /\ isConnectionTested = FALSE
  /\ isReadyToSubmit = FALSE
  /\ isSubmitting = FALSE
  /\ submitResult = ""
  /\ formDirty = FALSE
  /\ cancelDialog = FALSE
  /\ alive = TRUE
  /\ idDirty = TRUE
  /\ hydDirty = TRUE
  /\ hydTracksServer = FALSE
  /\ inFlight = {}
  /\ nextReq = 0
  /\ timers = <<>>
  /\ thens = {}
  /\ navs = [entry |-> 0, cancel |-> 0, create |-> 0, update |-> 0, delete |-> 0]
  /\ reloads = [create |-> 0, update |-> 0, delete |-> 0, deleteNow |-> 0]
  /\ succeeded = [create |-> 0, update |-> 0, delete |-> 0]
  /\ testedOk = {}
  /\ edits = 0
  /\ lastHydrated = <<>>

-----------------------------------------------------------------------------
(* The two effects of the view *)

\* faulty variant: the effect does not wait for the snapshot
entryDecision_noDefer(id, loading, value) ==
  IF id = -1 THEN "create"
  ELSE IF ~mediaServerExists(value, id).ret THEN "redirect"
  ELSE "target"

\* mediaServerIDeffect: what it decides for the id, given the resource:
\* "defer" while loading, "create" for -1, "redirect" for an unknown id,
\* "target" for a known one
entryDecision(id, loading, value) ==
  IF loading THEN "defer"
  ELSE IF id = -1 THEN "create"
  ELSE IF ~mediaServerExists(value, id).ret THEN "redirect"
  ELSE "target"

\* router.navigate is asynchronous: when the effect redirects, the effects
\* still scheduled run before the router tears the view down
mediaServerIDeffect ==
  /\ alive /\ idDirty
  /\ LET id == mediaServerId
         d == entryDecision(id, isLoading, resValue)
         newID == IF d \in {"create", "target"} THEN id ELSE mediaServerID
     IN /\ isCreate' = IF d = "create" THEN TRUE ELSE isCreate
        /\ toasts' = IF d \in {"redirect", "target"}
                     THEN toasts + mediaServerExists(resValue, id).toast
                     ELSE toasts
        /\ navs' = IF d = "redirect" THEN bump(navs, "entry") ELSE navs
        /\ alive' = (d # "redirect" \/ hydDirty)
        /\ mediaServerID' = newID
        /\ idDirty' = FALSE
        /\ hydDirty' = (hydDirty \/ (hydTracksServer /\
                          selectedMediaServerOf(resValue, newID) # selectedMediaServer))
  /\ UNCHANGED <<backend, nextId, resStatus, resValue, mediaServerId, lastHydrated,
                 mediaServerCreate, isConnectionTested, isReadyToSubmit,
                 isSubmitting, submitResult, formDirty, cancelDialog,
                 hydTracksServer, inFlight, nextReq, timers, thens, reloads,
                 succeeded, testedOk, edits>>

\* faulty variant: the effect hydrates during a submission as well
hydrates_always(submitting) == TRUE

\* mediaServerEffect: whether it hydrates the form
hydrates(submitting) == ~submitting

\* the signals the effect read in its last run have the values they had then:
\* the lookup fell back to the placeholder object then and does so now, so
\* the effect is not run again
placeholderAgain ==
  /\ hydTracksServer
  /\ lastHydrated = <<newMediaServer>>
  /\ selectedMediaServer = newMediaServer

mediaServerEffect ==
  /\ alive /\ hydDirty
  /\ LET server == selectedMediaServer
     IN IF ~hydrates(isSubmitting)
        THEN /\ hydTracksServer' = FALSE
             /\ UNCHANGED <<mediaServerCreate, isCreate, isConnectionTested,
                            isReadyToSubmit, submitResult, lastHydrated>>
        ELSE IF placeholderAgain
        THEN UNCHANGED <<mediaServerCreate, isCreate, isConnectionTested,
                         isReadyToSubmit, submitResult, lastHydrated,
                         hydTracksServer>>
        ELSE /\ mediaServerCreate' = server
             /\ isCreate' = (server.id = -1)
             /\ isConnectionTested' = FALSE
             /\ isReadyToSubmit' = FALSE
             /\ submitResult' = ""
             /\ hydTracksServer' = TRUE
             /\ lastHydrated' = <<server>>
  /\ hydDirty' = FALSE
  /\ alive' = (navs.entry = 0)
  /\ UNCHANGED <<backend, nextId, resStatus, resValue, mediaServerID, toasts,
                 mediaServerId, isSubmitting, formDirty, cancelDialog,
                 idDirty, inFlight, nextReq, timers, thens, navs, reloads,
                 succeeded, testedOk, edits>>

-----------------------------------------------------------------------------
(* The view's handlers.  Each returns what it does to the view: the new      *)
(* isSubmitting, the new result message and the requests it issues.          *)

Outcome(submitting, result, requests) ==
  [isSubmitting |-> submitting, submitResult |-> result, requests |-> requests]

\* checkFormValidity() returned false
invalidOutcome == Outcome(isSubmitting, InvalidMessage, {})

checkFormValidity == FormValid(mediaServerCreate)

testConnection ==
  IF ~checkFormValidity THEN invalidOutcome
  ELSE Outcome(isSubmitting, "Testing connection...",
               {Request("test", mediaServerCreate, mediaServerId)})

\* faulty variant: createMediaServer without the isSubmitting guard
createMediaServer_noGuard ==
  IF ~checkFormValidity THEN invalidOutcome
  ELSE Outcome(TRUE, "Creating media server, please wait...",
               {Request("create", mediaServerCreate, mediaServerId)})

createMediaServer ==
  IF ~checkFormValidity THEN invalidOutcome
  ELSE IF isSubmitting THEN Outcome(isSubmitting, submitResult, {})
  ELSE Outcome(TRUE, "Creating media server, please wait...",
               {Request("create", mediaServerCreate, mediaServerId)})

\* faulty variant: updateMediaServer without the isSubmitting guard
updateMediaServer_noGuard ==
  IF ~checkFormValidity THEN invalidOutcome
  ELSE Outcome(TRUE, "Updating media server, please wait...",
               {Request("update", mediaServerCreate, mediaServerId)})

updateMediaServer ==
  IF ~checkFormValidity THEN invalidOutcome
  ELSE IF isSubmitting THEN Outcome(isSubmitting, submitResult, {})
  ELSE Outcome(TRUE, "Updating media server, please wait...",
               {Request("update", mediaServerCreate, mediaServerId)})

onSubmit ==
  IF ~checkFormValidity THEN invalidOutcome
  ELSE IF ~isConnectionTested THEN testConnection
  ELSE IF isCreate THEN createMediaServer
  ELSE updateMediaServer

\* a handler's outcome applied to the state
apply(outcome) ==
  /\ withinBound(Cardinality(outcome.requests))
  /\ inFlight' = inFlight \cup outcome.requests
  /\ nextReq' = nextReq + Cardinality(outcome.requests)
  /\ isSubmitting' = outcome.isSubmitting
  /\ submitResult' = outcome.submitResult
  /\ hydDirty' = (hydDirty \/ (alive /\ outcome.isSubmitting # isSubmitting))
  /\ UNCHANGED <<backend, nextId, resStatus, resValue, mediaServerID, toasts,
                 mediaServerId, lastHydrated, mediaServerCreate, isCreate, isConnectionTested,
                 isReadyToSubmit, formDirty, cancelDialog, alive,
                 idDirty, hydTracksServer, timers, thens, navs, reloads,
                 succeeded, testedOk, edits>>

OnSubmit == userTurn /\ apply(onSubmit)

\* the user types into the form's fields
UserEdit ==
  /\ userTurn
  /\ withinBound(1)
  /\ \E e \in FormInputs :
       mediaServerCreate' = [mediaServerCreate EXCEPT !.name = e.name, !.url = e.url,
                                                      !.api_key = e.api_key]
  /\ formDirty' = TRUE
  /\ edits' = edits + 1
  /\ UNCHANGED <<backend, nextId, resStatus, resValue, mediaServerID, toasts,
                 mediaServerId, lastHydrated, isCreate, isConnectionTested, isReadyToSubmit,
                 isSubmitting, submitResult, cancelDialog, alive,
                 idDirty, hydDirty, hydTracksServer, inFlight, nextReq, timers,
                 thens, navs, reloads, succeeded, testedOk>>

-----------------------------------------------------------------------------
(* Cancel and delete *)

\* faulty variant: onCancel navigates whether or not the form is dirty
OnCancel_noDialog ==
  /\ userTurn
  /\ alive' = FALSE /\ navs' = bump(navs, "cancel")
  /\ idDirty' = FALSE /\ hydDirty' = FALSE
  /\ UNCHANGED <<backend, nextId, resStatus, resValue, mediaServerID, toasts,
                 mediaServerId, lastHydrated, mediaServerCreate, isCreate,
                 isConnectionTested, isReadyToSubmit, isSubmitting, submitResult,
                 formDirty, cancelDialog, hydTracksServer, inFlight, nextReq,
                 timers, thens, reloads, succeeded, testedOk, edits>>

\* router.navigate(['/settings/mediaservers']) tears the view down
OnCancel ==
  /\ userTurn
  /\ IF formDirty
     THEN cancelDialog' = TRUE /\ UNCHANGED <<alive, navs, idDirty, hydDirty>>
     ELSE /\ alive' = FALSE /\ navs' = bump(navs, "cancel")
          /\ idDirty' = FALSE /\ hydDirty' = FALSE
          /\ UNCHANGED cancelDialog
  /\ UNCHANGED <<backend, nextId, resStatus, resValue, mediaServerID, toasts,
                 mediaServerId, lastHydrated, mediaServerCreate, isCreate, isConnectionTested,
                 isReadyToSubmit, isSubmitting, submitResult, formDirty, hydTracksServer, inFlight, nextReq, timers, thens,
                 reloads, succeeded, testedOk, edits>>

OnConfirmCancel ==
  /\ alive /\ Quiescent /\ cancelDialog
  /\ cancelDialog' = FALSE
  /\ alive' = FALSE /\ navs' = bump(navs, "cancel")
  /\ idDirty' = FALSE /\ hydDirty' = FALSE
  /\ UNCHANGED <<backend, nextId, resStatus, resValue, mediaServerID, toasts,
                 mediaServerId, lastHydrated, mediaServerCreate, isCreate, isConnectionTested,
                 isReadyToSubmit, isSubmitting, submitResult, formDirty, hydTracksServer, inFlight, nextReq, timers, thens,
                 reloads, succeeded, testedOk, edits>>

closeCancelDialog ==
  /\ alive /\ Quiescent /\ cancelDialog
  /\ cancelDialog' = FALSE
  /\ UNCHANGED <<backend, nextId, resStatus, resValue, mediaServerID, toasts,
                 mediaServerId, lastHydrated, mediaServerCreate, isCreate, isConnectionTested,
                 isReadyToSubmit, isSubmitting, submitResult, formDirty, alive, idDirty, hydDirty, hydTracksServer, inFlight,
                 nextReq, timers, thens, navs, reloads, succeeded, testedOk, edits>>

\* faulty variant: deleteMediaServer without the existence guard
deleteMediaServer_unguarded ==
  [requests |-> {Request("delete", NoBody, mediaServerId)},
   toasts |-> mediaServerExists(resValue, mediaServerId).toast]

\* deleteMediaServer(): the requests it issues and the toasts it shows
deleteMediaServer ==
  LET exists == mediaServerExists(resValue, mediaServerId)
  IN [requests |-> IF exists.ret
                   THEN {Request("delete", NoBody, mediaServerId)}
                   ELSE {},
      toasts |-> exists.toast]

OnConfirmDelete ==
  /\ userTurn
  /\ LET d == deleteMediaServer
     IN /\ withinBound(Cardinality(d.requests) + d.toasts)
        /\ inFlight' = inFlight \cup d.requests
        /\ nextReq' = nextReq + Cardinality(d.requests)
        /\ toasts' = toasts + d.toasts
  /\ UNCHANGED <<backend, nextId, resStatus, resValue, mediaServerID,
                 mediaServerId, lastHydrated, mediaServerCreate, isCreate, isConnectionTested,
                 isReadyToSubmit, isSubmitting, submitResult, formDirty,
                 cancelDialog, alive, idDirty, hydDirty, hydTracksServer, timers,
                 thens, navs, reloads, succeeded, testedOk, edits>>

-----------------------------------------------------------------------------
(* The backend *)

backendIds == {backend[i].id : i \in 1..Len(backend)}

created(data) ==
  [added_at |-> "t3", api_key |-> data.api_key, enabled |-> data.enabled,
   id |-> nextId, name |-> data.name, server_type |-> data.server_type,
   url |-> data.url]

updated(id, data) ==
  [i \in 1..Len(backend) |->
     IF backend[i].id = id
     THEN [backend[i] EXCEPT !.api_key = data.api_key, !.enabled = data.enabled,
                             !.name = data.name, !.server_type = data.server_type,
                             !.url = data.url]
     ELSE backend[i]]

deleted(id) == SelectSeq(backend, LAMBDA s : s.id # id)

-----------------------------------------------------------------------------
(* Responses.  A response is a task of its own: it runs once the effects    *)
(* are flushed, whether or not the view still exists.                       *)

\* faulty variant: any answer of the test endpoint counts as a success
successMarked_any(result) == Len(result) > 0

\* testConnection's next: whether the result is success-marked
successMarked(result) == includes(toLowerCase(result), "success")

\* faulty variant: a success-marked result sets isConnectionTested alone
TestNext_testedOnly ==
  /\ Quiescent
  /\ \E r \in requestsOf({"test"}), result \in TestResults :
       /\ inFlight' = inFlight \ {r}
       /\ IF successMarked(result)
          THEN /\ isConnectionTested' = TRUE
               /\ submitResult' = result \o TestedSuffix
               /\ testedOk' = testedOk \cup {r.data}
          ELSE /\ submitResult' = result
               /\ UNCHANGED <<isConnectionTested, testedOk>>
  /\ UNCHANGED <<backend, nextId, resStatus, resValue, mediaServerID, toasts,
                 mediaServerId, lastHydrated, mediaServerCreate, isCreate, isSubmitting,
                 isReadyToSubmit, formDirty, cancelDialog, alive, idDirty,
                 hydDirty, hydTracksServer, nextReq, timers, thens, navs, reloads,
                 succeeded, edits>>

TestNext ==
  /\ Quiescent
  /\ \E r \in requestsOf({"test"}), result \in TestResults :
       /\ inFlight' = inFlight \ {r}
       /\ IF successMarked(result)
          THEN /\ isConnectionTested' = TRUE
               /\ isReadyToSubmit' = TRUE
               /\ submitResult' = result \o TestedSuffix
               /\ testedOk' = testedOk \cup {r.data}
          ELSE /\ submitResult' = result
               /\ UNCHANGED <<isConnectionTested, isReadyToSubmit, testedOk>>
  /\ UNCHANGED <<backend, nextId, resStatus, resValue, mediaServerID, toasts,
                 mediaServerId, lastHydrated, mediaServerCreate, isCreate, isSubmitting,
                 formDirty, cancelDialog, alive, idDirty, hydDirty,
                 hydTracksServer, nextReq, timers, thens, navs, reloads,
                 succeeded, edits>>

TestError ==
  /\ Quiescent
  /\ \E r \in requestsOf({"test"}), e \in ErrorMessages :
       /\ inFlight' = inFlight \ {r}
       /\ submitResult' = "Connection failed: " \o e
  /\ UNCHANGED <<backend, nextId, resStatus, resValue, mediaServerID, toasts,
                 mediaServerId, lastHydrated, mediaServerCreate, isCreate, isConnectionTested,
                 isReadyToSubmit, isSubmitting, formDirty, cancelDialog, alive, idDirty, hydDirty, hydTracksServer, nextReq,
                 timers, thens, navs, reloads, succeeded, testedOk, edits>>

\* faulty variant: the next callback reloads at once, as the one of delete does
submitNext_reloadNow(r, message) ==
  /\ inFlight' = inFlight \ {r}
  /\ submitResult' = message
  /\ timers' = Append(timers, [kind |-> r.kind, n |-> r.n])
  /\ succeeded' = bump(succeeded, r.kind)
  /\ reloads' = bump(reloads, r.kind)
  /\ resStatus' = reloadStatus(resStatus)
  /\ idDirty' = (idDirty \/ (alive /\ resStatus = "resolved"))
  /\ UNCHANGED <<resValue, mediaServerID, toasts, mediaServerId, lastHydrated,
                 mediaServerCreate, isCreate, isConnectionTested, isReadyToSubmit,
                 isSubmitting, formDirty, cancelDialog, alive, hydDirty,
                 hydTracksServer, nextReq, thens, navs, testedOk, edits>>

\* faulty variant: the next callback clears isSubmitting
submitNext_clearsSubmitting(r, message) ==
  /\ inFlight' = inFlight \ {r}
  /\ submitResult' = message
  /\ timers' = Append(timers, [kind |-> r.kind, n |-> r.n])
  /\ succeeded' = bump(succeeded, r.kind)
  /\ isSubmitting' = FALSE
  /\ hydDirty' = (hydDirty \/ (alive /\ isSubmitting))
  /\ UNCHANGED <<resStatus, resValue, mediaServerID, toasts, mediaServerId,
                 lastHydrated, mediaServerCreate, isCreate, isConnectionTested,
                 isReadyToSubmit, formDirty, cancelDialog, alive,
                 idDirty, hydTracksServer, nextReq, thens, navs,
                 reloads, testedOk, edits>>

\* the next callbacks of create and update: message and timer
submitNext(r, message) ==
  /\ inFlight' = inFlight \ {r}
  /\ submitResult' = message
  /\ timers' = Append(timers, [kind |-> r.kind, n |-> r.n])
  /\ succeeded' = bump(succeeded, r.kind)
  /\ UNCHANGED <<resStatus, resValue, mediaServerID, toasts, mediaServerId, lastHydrated,
                 mediaServerCreate, isCreate, isConnectionTested, isReadyToSubmit,
                 isSubmitting, formDirty, cancelDialog, alive,
                 idDirty, hydDirty, hydTracksServer, nextReq, thens, navs,
                 reloads, testedOk, edits>>

\* the error callbacks of create and update
submitError(r, message) ==
  /\ inFlight' = inFlight \ {r}
  /\ isSubmitting' = FALSE
  /\ submitResult' = message
  /\ hydDirty' = (hydDirty \/ (alive /\ isSubmitting))
  /\ UNCHANGED <<backend, nextId, resStatus, resValue, mediaServerID, toasts,
                 mediaServerId, lastHydrated, mediaServerCreate, isCreate, isConnectionTested,
                 isReadyToSubmit, formDirty, cancelDialog, alive,
                 idDirty, hydTracksServer, nextReq, timers, thens, navs, reloads,
                 succeeded, testedOk, edits>>

CreateNext ==
  /\ Quiescent
  /\ \E r \in requestsOf({"create"}) :
       /\ backend' = Append(backend, created(r.data))
       /\ nextId' = nextId + 1
       /\ submitNext(r, "Media server created successfully!")

CreateError ==
  /\ Quiescent
  /\ \E r \in requestsOf({"create"}), e \in ErrorMessages :
       submitError(r, "Error creating media server: " \o e)

UpdateNext ==
  /\ Quiescent
  /\ \E r \in requestsOf({"update"}) :
       /\ r.id \in backendIds
       /\ backend' = updated(r.id, r.data)
       /\ UNCHANGED nextId
       /\ submitNext(r, "Media server updated successfully!")

UpdateError ==
  /\ Quiescent
  /\ \E r \in requestsOf({"update"}), e \in ErrorMessages :
       submitError(r, "Error updating media server: " \o e)

\* faulty variant: the next callback of delete patches the snapshot itself
DeleteNext_patchesSnapshot ==
  /\ Quiescent
  /\ \E r \in requestsOf({"delete"}) :
       /\ r.id \in backendIds
       /\ backend' = deleted(r.id)
       /\ resValue' = SelectSeq(resValue, LAMBDA s : s.id # r.id)
       /\ inFlight' = inFlight \ {r}
       /\ timers' = Append(timers, [kind |-> "delete", n |-> r.n])
  /\ submitResult' = "Media server deleted successfully!"
  /\ resStatus' = reloadStatus(resStatus)
  /\ reloads' = bump(reloads, "deleteNow")
  /\ succeeded' = bump(succeeded, "delete")
  /\ idDirty' = (idDirty \/ (alive /\ resStatus = "resolved"))
  /\ UNCHANGED <<nextId, mediaServerID, toasts, mediaServerId, lastHydrated,
                 mediaServerCreate, isCreate, isConnectionTested, isReadyToSubmit,
                 isSubmitting, formDirty, cancelDialog, alive,
                 hydDirty, hydTracksServer, nextReq, thens, navs, testedOk, edits>>

DeleteNext ==
  /\ Quiescent
  /\ \E r \in requestsOf({"delete"}) :
       /\ r.id \in backendIds
       /\ backend' = deleted(r.id)
       /\ inFlight' = inFlight \ {r}
       /\ timers' = Append(timers, [kind |-> "delete", n |-> r.n])
  /\ submitResult' = "Media server deleted successfully!"
  /\ resStatus' = reloadStatus(resStatus)
  /\ reloads' = bump(reloads, "deleteNow")
  /\ succeeded' = bump(succeeded, "delete")
  /\ idDirty' = (idDirty \/ (alive /\ resStatus = "resolved"))
  /\ UNCHANGED <<nextId, resValue, mediaServerID, toasts, mediaServerId, lastHydrated,
                 mediaServerCreate, isCreate, isConnectionTested, isReadyToSubmit,
                 isSubmitting, formDirty, cancelDialog, alive,
                 hydDirty, hydTracksServer, nextReq, thens, navs, testedOk, edits>>

DeleteError ==
  /\ Quiescent
  /\ \E r \in requestsOf({"delete"}), e \in ErrorMessages :
       /\ inFlight' = inFlight \ {r}
       /\ submitResult' = "Error deleting media server: " \o e
  /\ UNCHANGED <<backend, nextId, resStatus, resValue, mediaServerID, toasts,
                 mediaServerId, lastHydrated, mediaServerCreate, isCreate, isConnectionTested,
                 isReadyToSubmit, isSubmitting, formDirty, cancelDialog, alive, idDirty, hydDirty, hydTracksServer, nextReq,
                 timers, thens, navs, reloads, succeeded, testedOk, edits>>

\* refreshLibrary(id): a caller outside the view asks the backend to rescan
\* the library of a server; the service only sends the request
refreshLibrary ==
  /\ Quiescent
  /\ withinBound(1)
  /\ \E id \in RefreshIds :
       inFlight' = inFlight \cup {Request("refresh", NoBody, id)}
  /\ nextReq' = nextReq + 1
  /\ UNCHANGED <<backend, nextId, resStatus, resValue, mediaServerID, toasts,
                 mediaServerId, lastHydrated, mediaServerCreate, isCreate,
                 isConnectionTested, isReadyToSubmit, isSubmitting, submitResult,
                 formDirty, cancelDialog, alive, idDirty, hydDirty,
                 hydTracksServer, timers, thens, navs, reloads, succeeded,
                 testedOk, edits>>

\* the answer to refreshLibrary, a status text or an error: the service keeps
\* nothing of it
RefreshAnswered ==
  /\ Quiescent
  /\ \E r \in requestsOf({"refresh"}) : inFlight' = inFlight \ {r}
  /\ UNCHANGED <<backend, nextId, resStatus, resValue, mediaServerID, toasts,
                 mediaServerId, lastHydrated, mediaServerCreate, isCreate,
                 isConnectionTested, isReadyToSubmit, isSubmitting, submitResult,
                 formDirty, cancelDialog, alive, idDirty, hydDirty,
                 hydTracksServer, nextReq, timers, thens, navs, reloads,
                 succeeded, testedOk, edits>>

-----------------------------------------------------------------------------
(* Timers, navigation promises and the resource's loads *)

\* setTimeout(() => router.navigate([...]).then(...), 2000) fires: the
\* delays are equal, so the timers fire in the order they were set
TimerFires ==
  /\ Quiescent
  /\ timers # <<>>
  /\ timers' = Tail(timers)
  /\ thens' = thens \cup {Head(timers)}
  /\ navs' = bump(navs, Head(timers).kind)
  /\ alive' = FALSE
  /\ idDirty' = FALSE /\ hydDirty' = FALSE
  /\ cancelDialog' = FALSE
  /\ UNCHANGED <<backend, nextId, resStatus, resValue, mediaServerID, toasts,
                 mediaServerId, lastHydrated, mediaServerCreate, isCreate, isConnectionTested,
                 isReadyToSubmit, isSubmitting, submitResult, formDirty,
                 hydTracksServer, inFlight, nextReq, reloads, succeeded, testedOk,
                 edits>>

\* the navigation's promise resolves: mediaServersResource.reload()
NavigationThen ==
  /\ Quiescent
  /\ \E t \in thens :
       /\ thens' = thens \ {t}
       /\ reloads' = bump(reloads, t.kind)
  /\ resStatus' = reloadStatus(resStatus)
  /\ UNCHANGED <<backend, nextId, resValue, mediaServerID, toasts, mediaServerId, lastHydrated,
                 mediaServerCreate, isCreate, isConnectionTested, isReadyToSubmit,
                 isSubmitting, submitResult, formDirty, cancelDialog,
                 alive, idDirty, hydDirty, hydTracksServer, inFlight, nextReq,
                 timers, navs, succeeded, testedOk, edits>>

\* the resource's request completes: the snapshot is replaced wholesale
LoadCompletes ==
  /\ Quiescent
  /\ isLoading
  /\ resValue' = backend
  /\ resStatus' = "resolved"
  /\ idDirty' = alive
  /\ hydDirty' = (alive /\ hydTracksServer /\
                    ~(find(resValue, mediaServerID) = 0 /\ find(backend, mediaServerID) = 0))
  /\ UNCHANGED <<backend, nextId, mediaServerID, toasts, mediaServerId, lastHydrated,
                 mediaServerCreate, isCreate, isConnectionTested, isReadyToSubmit,
                 isSubmitting, submitResult, formDirty, cancelDialog,
                 alive, hydTracksServer, inFlight, nextReq, timers, thens, navs,
                 reloads, succeeded, testedOk, edits>>

-----------------------------------------------------------------------------
(* Specifications *)

Next ==
  \/ mediaServerIDeffect
  \/ mediaServerEffect
  \/ OnSubmit
  \/ UserEdit
  \/ OnCancel
  \/ OnConfirmCancel
  \/ closeCancelDialog
  \/ OnConfirmDelete
  \/ TestNext
  \/ TestError
  \/ CreateNext
  \/ CreateError
  \/ UpdateNext
  \/ UpdateError
  \/ DeleteNext
  \/ DeleteError
  \/ TimerFires
  \/ NavigationThen
  \/ LoadCompletes
  \/ refreshLibrary
  \/ RefreshAnswered

Spec == Init /\ [][Next]_vars

-----------------------------------------------------------------------------
(* Properties *)

present(value, id) == \E i \in 1..Len(value) : value[i].id = id

uniqueIds(value) ==
  \A i, j \in 1..Len(value) : value[i].id = value[j].id => i = j

\* snapshots and ids the pure derivations are probed with, besides the
\* current ones
ProbeSnapshots ==
  { <<>>,
    InitialBackend,
    << InitialBackend[2], InitialBackend[1] >>,
    << InitialBackend[2], newMediaServer >> }

ProbeIds == {-1, 0, 1, 2, 3, 7}

\* C1: for every snapshot with unique ids and every targeted id, the selected
\* server is the snapshot's entity with that id when there is one, and
\* otherwise the sentinel placeholder (id -1, enabled, empty name, url and
\* api_key); so it is in every state, whatever the snapshot and the targeted
\* id have become
C1_SelectedIsMatchOrSentinel ==
  \A value \in ProbeSnapshots \cup {resValue, backend} :
    \A id \in ProbeIds \cup {mediaServerID, mediaServerId} :
      uniqueIds(value) =>
        LET sel == selectedMediaServerOf(value, id)
        IN IF present(value, id)
           THEN \A i \in 1..Len(value) : value[i].id = id => sel = value[i]
           ELSE /\ sel.id = -1
                /\ sel.enabled = TRUE
                /\ sel.name = "" /\ sel.url = "" /\ sel.api_key = ""

\* the snapshot was reloaded after an update and the targeted id selects the
\* updated entity
C1_Witness ==
  /\ mediaServerID = 1
  /\ present(resValue, 1)
  /\ resValue # InitialBackend
  /\ selectedMediaServer.id = 1
  /\ selectedMediaServer.name = "Home Emby"

\* C2: mediaServerExists(id) returns true without a notification when id is
\* in the snapshot; mediaServerExists(-1) shows no notification whatever the
\* snapshot holds; for any other absent id it returns false and shows exactly
\* one error notification, on every call the view makes
C2_ExistsNotifiesOnce ==
  /\ [](\A value \in ProbeSnapshots \cup {resValue} :
          \A id \in ProbeIds \cup {mediaServerId} :
            LET e == mediaServerExists(value, id)
            IN /\ present(value, id) => (e.ret /\ e.toast = 0)
               /\ id = -1 => e.toast = 0
               /\ (~present(value, id) /\ id # -1) => (~e.ret /\ e.toast = 1))
  /\ [][OnConfirmDelete =>
          toasts' = toasts + (IF ~present(resValue, mediaServerId) /\ mediaServerId # -1
                              THEN 1 ELSE 0)]_vars
  /\ [][(mediaServerIDeffect /\ ~isLoading /\ mediaServerId # -1) =>
          toasts' = toasts + (IF ~present(resValue, mediaServerId) THEN 1 ELSE 0)]_vars

\* the entry effect met an unknown id: one notification, then the redirect
C2_Witness ==
  /\ toasts = 1
  /\ navs.entry = 1
  /\ ~present(resValue, mediaServerId)
  /\ resStatus = "resolved"

blockedBySpec(f) ==
  \/ Len(f.api_key) < 10
  \/ ~(startsWith(f.url, "http://") \/ startsWith(f.url, "https://"))

\* C3: a submit attempt with an invalid form (an api_key shorter than 10
\* characters or a url that is no http(s) url in particular), through onSubmit
\* or through testConnection, createMediaServer or updateMediaServer, issues
\* no request and leaves isCreate, isConnectionTested, isReadyToSubmit,
\* isSubmitting and the form unchanged; only the result message changes
C3_InvalidFormBlocks ==
  /\ []((blockedBySpec(mediaServerCreate) \/ ~FormValid(mediaServerCreate)) =>
          \A h \in {onSubmit, testConnection, createMediaServer, updateMediaServer} :
            /\ h.requests = {}
            /\ h.isSubmitting = isSubmitting
            /\ h.submitResult = InvalidMessage)
  /\ [][(OnSubmit /\ (blockedBySpec(mediaServerCreate) \/ ~FormValid(mediaServerCreate))) =>
          /\ UNCHANGED <<inFlight, nextReq, isCreate, isConnectionTested,
                         isReadyToSubmit, isSubmitting, mediaServerCreate>>
          /\ submitResult' = InvalidMessage]_vars

\* the form was hydrated with a valid entity, the user shortened the api_key
\* and the submit attempt was refused
C3_Witness ==
  /\ alive
  /\ ~isCreate
  /\ mediaServerCreate.server_type = "plex"
  /\ Len(mediaServerCreate.api_key) = 9
  /\ submitResult = InvalidMessage
  /\ nextReq = 0

\* C4: while isSubmitting is true, a submit attempt issues no request
C4_NoRequestWhileSubmitting ==
  [][(OnSubmit /\ isSubmitting) => UNCHANGED <<inFlight, nextReq>>]_vars

\* a create is in flight, the form is valid and the user may submit again
C4_Witness ==
  /\ userTurn
  /\ isSubmitting
  /\ FormValid(mediaServerCreate)
  /\ requestsOf({"create"}) # {}
  /\ withinBound(1)

\* the results of the test endpoint that contain "success" in some casing
SuccessResults == {"Connection SUCCESSFUL"}

issued == inFlight' \ inFlight

\* C5: through onSubmit no create or update is issued before a connection
\* test has resolved with a success-marked result: a valid submit that is not
\* yet tested issues one test request and nothing else, a test that fails or
\* resolves without "success" leaves isConnectionTested alone, and a tested
\* submit issues the create when isCreate and the update otherwise
C5_TestBeforeSubmit ==
  /\ [](isConnectionTested => testedOk # {})
  /\ [][(~isConnectionTested /\ inFlight' # inFlight /\ OnSubmit) =>
          \A r \in issued : r.kind = "test"]_vars
  /\ [][(~isConnectionTested /\ FormValid(mediaServerCreate) /\ OnSubmit) =>
          (Cardinality(issued) = 1 /\ UNCHANGED isSubmitting)]_vars
  /\ [][(isConnectionTested /\ inFlight' # inFlight /\ issued # {} /\ OnSubmit) =>
          /\ testedOk # {}
          /\ \A r \in issued : r.kind = IF isCreate THEN "create" ELSE "update"]_vars
  /\ [][(isConnectionTested' # isConnectionTested /\ TestNext) =>
          \E r \in SuccessResults : submitResult' = r \o TestedSuffix]_vars
  /\ [][(submitResult' \in TestResults \ SuccessResults /\ TestNext) =>
          UNCHANGED <<isConnectionTested, isReadyToSubmit>>]_vars
  /\ [][TestError => UNCHANGED <<isConnectionTested, isReadyToSubmit>>]_vars

\* a create was issued after a success-marked test
C5_Witness ==
  /\ requestsOf({"create"}) # {}
  /\ testedOk # {}
  /\ isConnectionTested

timersOf(kind) == Cardinality({i \in 1..Len(timers) : timers[i].kind = kind})

thensOf(kind) == Cardinality({t \in thens : t.kind = kind})

\* what the success path of a create or update does, whatever else happens:
\* the success message is shown, the navigation follows the timer and the
\* reload follows the navigation, once each
C6_SuccessPath ==
  /\ [][CreateNext => submitResult' = "Media server created successfully!"]_vars
  /\ [][UpdateNext => submitResult' = "Media server updated successfully!"]_vars
  /\ [](\A k \in {"create", "update"} :
          /\ navs[k] + timersOf(k) = succeeded[k]
          /\ reloads[k] + thensOf(k) = navs[k])

\* the timer of a create or update is pending before and after the step
submitTimerPending ==
  \E i \in 1..Len(timers) :
    /\ timers[i].kind \in {"create", "update"}
    /\ \E j \in 1..Len(timers') : timers'[j] = timers[i]

\* C6 as stated: after a create or update succeeds the success message is
\* shown, the navigation happens only once the timer has fired, the reload is
\* triggered exactly once after that navigation, and no reload at all happens
\* between the success response and the navigation
C6_NoReloadBeforeNavigation ==
  /\ C6_SuccessPath
  /\ [][submitTimerPending => reloads' = reloads]_vars

\* C6 as amended: the success message is shown, the success path navigates
\* only when its timer fires and reloads exactly once, after that navigation;
\* between the success response and that navigation the only reloads are
\* those of a delete (the one on its success and the one after its own timed
\* navigation)
C6_ReloadOnceAfterNavigation ==
  /\ C6_SuccessPath
  /\ [][submitTimerPending =>
          (reloads'.create = reloads.create /\ reloads'.update = reloads.update)]_vars

\* a create succeeded, its timer fired, the navigation resolved and the one
\* reload was triggered
C6_Witness ==
  /\ succeeded.create = 1
  /\ navs.create = 1
  /\ reloads.create = 1
  /\ timers = <<>> /\ thens = {}
  /\ submitResult = "Media server created successfully!"

\* C7: while the snapshot is loading the entry effect changes nothing; once
\* loaded, the id -1 enters create mode and becomes the targeted id, an id of
\* the snapshot becomes the targeted id, and any other id redirects to the
\* list and leaves the targeted id unchanged
C7_EntryWorkflow ==
  [][mediaServerIDeffect =>
       IF isLoading
       THEN UNCHANGED <<navs, toasts, isCreate, mediaServerID, alive, viewVars,
                        inFlight, reloads, resStatus, resValue>>
       ELSE IF mediaServerId = -1
       THEN isCreate' /\ mediaServerID' = -1 /\ alive' /\ UNCHANGED <<navs, toasts>>
       ELSE IF present(resValue, mediaServerId)
       THEN mediaServerID' = mediaServerId /\ alive' /\ UNCHANGED <<navs, toasts, isCreate>>
       ELSE /\ navs' = bump(navs, "entry")
            /\ alive' = hydDirty
            /\ UNCHANGED mediaServerID]_vars

\* an unknown id redirected and the targeted id is still the one left by an
\* earlier view
C7_Witness ==
  /\ ~alive
  /\ navs.entry = 1
  /\ mediaServerId = 7
  /\ mediaServerID = 2
  /\ resStatus = "resolved"

SubmitErrorTexts ==
  {"Error creating media server: " \o e : e \in ErrorMessages}
    \cup {"Error updating media server: " \o e : e \in ErrorMessages}

\* C8: when a create or update fails, isSubmitting is cleared, the error
\* message is shown and stays, the view stays on the form, and the form with
\* its tested and ready flags is kept as the user had it, also once the
\* effects that the failure triggers have run
C8_FailurePreservesForm ==
  /\ [][(CreateError \/ UpdateError) =>
          /\ ~isSubmitting'
          /\ submitResult' \in SubmitErrorTexts
          /\ UNCHANGED <<alive, mediaServerCreate, isConnectionTested, isReadyToSubmit>>]_vars
  /\ [][(mediaServerEffect /\ submitResult \in SubmitErrorTexts) =>
          UNCHANGED <<submitResult, mediaServerCreate, isConnectionTested,
                      isReadyToSubmit, alive>>]_vars

\* C9: when the view's id is not in the snapshot, deleteMediaServer issues no
\* request and changes nothing of the view; it shows one error notification
\* unless the id is -1
C9_DeleteGuarded ==
  /\ [](~present(resValue, mediaServerId) =>
          /\ deleteMediaServer.requests = {}
          /\ deleteMediaServer.toasts = IF mediaServerId = -1 THEN 0 ELSE 1)
  /\ [][(OnConfirmDelete /\ ~present(resValue, mediaServerId)) =>
          /\ UNCHANGED <<inFlight, nextReq, viewVars>>
          /\ toasts' = toasts + (IF mediaServerId = -1 THEN 0 ELSE 1)]_vars

\* the user confirmed a delete while the snapshot was still loading: a
\* notification and no request
C9_Witness ==
  /\ alive
  /\ toasts = 1
  /\ resStatus = "loading"
  /\ mediaServerId = 1
  /\ nextReq = 0

\* C10: at most one create or update request is in flight
C10_OneSubmitInFlight ==
  Cardinality(requestsOf({"create", "update"})) <= 1

\* an update is in flight while the user may act and a test is unanswered
C10_Witness ==
  /\ userTurn
  /\ Cardinality(requestsOf({"update"})) = 1
  /\ requestsOf({"test"}) # {}
  /\ FormValid(mediaServerCreate)

\* a response of the test, create, update or delete endpoint is delivered
response ==
  \/ TestNext \/ TestError
  \/ CreateNext \/ CreateError
  \/ UpdateNext \/ UpdateError
  \/ DeleteNext \/ DeleteError

\* C11: once the user has left the view through cancel, a response that
\* arrives sets no timer that navigates, performs no navigation and triggers
\* no reload of the snapshot
C11_LateResponseInert ==
  [][(navs.cancel > 0 /\ response) =>
       UNCHANGED <<timers, thens, navs, reloads, resStatus>>]_vars

\* C12: whenever isConnectionTested is true the form as it is now has passed a
\* success-marked connection test, and the payload of every create or update
\* request is a payload that passed such a test
C12_TestedPayloadSubmitted ==
  /\ [](isConnectionTested => mediaServerCreate \in testedOk)
  /\ [][OnSubmit =>
          \A r \in issued : r.kind \in {"create", "update"} => r.data \in testedOk]_vars

\* C13: isReadyToSubmit equals isConnectionTested in every state, and no step
\* changes one of them without the other
C13_ReadyMirrorsTested ==
  /\ [](isReadyToSubmit = isConnectionTested)
  /\ [][(isReadyToSubmit' # isReadyToSubmit) <=>
          (isConnectionTested' # isConnectionTested)]_vars

\* a successful test set both flags and a later hydration reset both
C13_Witness ==
  /\ alive
  /\ testedOk # {}
  /\ ~isConnectionTested
  /\ ~isReadyToSubmit

\* C14: once the snapshot is loaded and the entry and hydration effects have
\* run, isCreate is true exactly when the targeted id is -1, also after a
\* reload of the snapshot
C14_CreateIffSentinel ==
  [][((mediaServerIDeffect \/ mediaServerEffect) /\ resStatus = "resolved" /\ Quiescent') =>
       (isCreate' <=> mediaServerID' = SentinelId)]_vars

\* C15: when mediaServerEffect runs and no submission is in flight, the form
\* becomes a copy of the selected server and isConnectionTested,
\* isReadyToSubmit and the result message are reset; while isSubmitting is
\* true neither the effect nor a completed reload changes the form, the flags
\* or the message; and the effect hydrates only when the selected server
\* differs from the one it copied last
C15_Hydration ==
  /\ [][(mediaServerEffect /\ ~isSubmitting /\ lastHydrated # <<selectedMediaServer>>) =>
          /\ mediaServerCreate' = selectedMediaServer
          /\ ~isConnectionTested' /\ ~isReadyToSubmit'
          /\ submitResult' = ""]_vars
  /\ [][((mediaServerEffect \/ LoadCompletes) /\ isSubmitting) =>
          UNCHANGED <<mediaServerCreate, isConnectionTested, isReadyToSubmit,
                      submitResult>>]_vars
  /\ [][(mediaServerEffect /\ hydrates(isSubmitting) /\ ~placeholderAgain) =>
          lastHydrated # <<selectedMediaServer>>]_vars

DeleteErrorTexts == {"Error deleting media server: " \o e : e \in ErrorMessages}

\* the timer of a delete is pending before and after the step
deleteTimerPending ==
  \E i \in 1..Len(timers) :
    /\ timers[i].kind = "delete"
    /\ \E j \in 1..Len(timers') : timers'[j] = timers[i]

\* C16: a successful delete reloads the snapshot at once and shows the
\* success message; until its timer fires the effects and the completed
\* reload leave the message shown and neither the entry effect nor the delete
\* path navigates; the timed navigation is followed by the second reload,
\* once each; a failed delete shows the error and triggers no reload, no
\* timer and no navigation
C16_DeleteThenTimedNavigation ==
  /\ [][DeleteNext =>
          /\ submitResult' = "Media server deleted successfully!"
          /\ reloads' = bump(reloads, "deleteNow")
          /\ UNCHANGED navs]_vars
  /\ [](/\ reloads.deleteNow = succeeded.delete
        /\ navs.delete + timersOf("delete") = succeeded.delete
        /\ reloads.delete + thensOf("delete") = navs.delete)
  /\ [][(deleteTimerPending /\ (mediaServerIDeffect \/ mediaServerEffect \/ LoadCompletes)) =>
          /\ UNCHANGED submitResult
          /\ navs'.entry = navs.entry]_vars
  /\ [][DeleteError =>
          /\ submitResult' \in DeleteErrorTexts
          /\ UNCHANGED <<reloads, resStatus, timers, thens, navs>>]_vars

\* C17: with a dirty form onCancel opens the confirmation dialog and does
\* not navigate; confirming navigates to the list and issues no request;
\* declining keeps the view and leaves its state unchanged; with a clean form
\* onCancel navigates to the list at once
C17_CancelConfirms ==
  /\ [][(OnCancel /\ formDirty) =>
          /\ cancelDialog' /\ alive'
          /\ UNCHANGED <<navs, inFlight, nextReq, backend>>]_vars
  /\ [][(OnCancel /\ ~formDirty) =>
          /\ navs' = bump(navs, "cancel") /\ ~alive'
          /\ UNCHANGED <<cancelDialog, inFlight, nextReq, backend>>]_vars
  /\ [][OnConfirmCancel =>
          /\ navs' = bump(navs, "cancel") /\ ~alive'
          /\ UNCHANGED <<inFlight, nextReq, backend>>]_vars
  /\ [][closeCancelDialog =>
          /\ alive' /\ ~cancelDialog'
          /\ UNCHANGED <<navs, inFlight, nextReq, backend, mediaServerCreate, isCreate,
                         isConnectionTested, isReadyToSubmit, isSubmitting,
                         submitResult, formDirty>>]_vars

\* the user edited the form, cancelled and confirmed: the view is gone and
\* nothing was sent
C17_Witness ==
  /\ ~alive
  /\ navs.cancel = 1
  /\ formDirty
  /\ edits > 0
  /\ nextReq = 0
  /\ backend = InitialBackend

\* C18: issuing a request of the service and receiving its answer leave the
\* snapshot unchanged; the snapshot changes only when a load of the resource
\* completes, and then it becomes the backend's collection
C18_NoOptimisticMutation ==
  /\ [][resValue' # resValue =>
          ~(OnSubmit \/ OnConfirmDelete \/ refreshLibrary \/ response \/ RefreshAnswered)]_vars
  /\ [][resValue' # resValue => LoadCompletes]_vars
  /\ [][LoadCompletes => (resValue' = backend /\ resStatus' = "resolved")]_vars

\* a delete succeeded and its reload is still pending: the snapshot holds the
\* deleted server
C18_Witness ==
  /\ succeeded.delete = 1
  /\ resStatus = "reloading"
  /\ resValue = InitialBackend
  /\ Len(backend) = 1

\* C19: whenever isSubmitting is true, isConnectionTested and isReadyToSubmit
\* are true
C19_SubmittingImpliesTested ==
  isSubmitting => (isConnectionTested /\ isReadyToSubmit)

\* an update is in flight while the selected server was replaced by a
\* completed reload, and the flags are kept
C19_Witness ==
  /\ alive
  /\ isSubmitting
  /\ isConnectionTested
  /\ requestsOf({"update"}) # {}
  /\ succeeded.delete = 1
  /\ resStatus = "resolved"
  /\ ~hydDirty
  /\ lastHydrated # <<selectedMediaServer>>

submitSucceeded == succeeded.create + succeeded.update > 0

\* C20: once a create or update has succeeded, isSubmitting stays true and
\* neither onSubmit nor createMediaServer or updateMediaServer issues a
\* request
C20_SubmittingAfterSuccess ==
  /\ [](submitSucceeded =>
          /\ isSubmitting
          /\ createMediaServer.requests = {}
          /\ updateMediaServer.requests = {})
  /\ [][(CreateNext \/ UpdateNext) => isSubmitting']_vars
  /\ [][(submitSucceeded /\ OnSubmit) => UNCHANGED <<inFlight, nextReq>>]_vars

\* an update succeeded, its timer is pending and the user may submit the
\* valid form again
C20_Witness ==
  /\ userTurn
  /\ succeeded.update = 1
  /\ timersOf("update") = 1
  /\ FormValid(mediaServerCreate)
  /\ isConnectionTested
  /\ withinBound(1)

====
